---- MODULE Spec2Model ----
(***************************************************************************)
(* Model of scripts/transform.mjs: the one-shot pipeline that reads a SAS  *)
(* contract, substitutes four literals in the raw text, parses it, strips  *)
(* the Signature nodes, overwrites the structured fields, serializes the   *)
(* tree and writes the XML, the HTML report and the deployment note.       *)
(*                                                                         *)
(* Text is a sequence of tokens.  A token is one character (a string of    *)
(* length one) or one piece of markup (a tag or a comment) written as it   *)
(* stands in the file.  No markup token is a character, so no literal of   *)
(* REPLACEMENTS can match into or across markup, as in the file, where     *)
(* every piece of markup starts with '<' and no literal holds a '<'.       *)
(***************************************************************************)
EXTENDS Integers, Sequences, FiniteSets, TLC

\* ---------------------------------------------------------------------
\* Bounds of the model
\* ---------------------------------------------------------------------

\* Longest run of text chunks placed in one field of an input document.
MaxChunks == 2

\* Most Signature elements under the root of an input document.
MaxSignatures == 2

\* Most documento entries in the documentos list of an input document.
MaxDocs == 2

\* ---------------------------------------------------------------------
\* Configuration (transform.mjs, CONFIG and REPLACEMENTS)
\* ---------------------------------------------------------------------

OLD_NAME == <<"J","O","R","G","E"," ","M","E","D","I","N","A"," ","G","O","N","Z","A","L","E","Z">>
NEW_NAME == <<"E","D","U","A","R","D","O"," ","R","O","S","A","L","E","S"," ","P","A","Z">>
OLD_RFC == <<"M","E","G","J","6","4","0","1","0","7","Q","S","A">>
NEW_RFC == <<"R","O","P","E","6","5","0","5","1","1","5","E","A">>
OLD_CURP == <<"M","E","G","J","6","4","0","1","0","7","H","D","F","D","N","R","0","7">>
NEW_CURP == <<"R","O","P","E","6","5","0","5","1","1","H","D","F","S","Z","D","0","7">>
OLD_EMAIL == <<"f","a","c","t","u","r","a","s",".","j","m","g","@","o","u","t","l","o","o","k",".","c","o","m">>
NEW_EMAIL == <<"t","i","s","k","a","m","x","@","o","u","t","l","o","o","k",".","c","o","m">>

\* (a table in which the new value of the second entry is the old literal
\* of the third)
REPLACEMENTS_Chained ==
    << <<OLD_NAME, NEW_NAME>>, <<OLD_RFC, OLD_CURP>>,
       <<OLD_CURP, NEW_CURP>>, <<OLD_EMAIL, NEW_EMAIL>> >>
\* The entries of REPLACEMENTS in insertion order, the order of Object.entries,
\* as the file sets them.
REPLACEMENTS ==
    << <<OLD_NAME, NEW_NAME>>, <<OLD_RFC, NEW_RFC>>,
       <<OLD_CURP, NEW_CURP>>, <<OLD_EMAIL, NEW_EMAIL>> >>

CONFIG ==
    [ QR_TARGET_URL |-> "https://alt-site.example.com/contrato/585748",
      INPUT_FILE    |-> "SAS-1.2-202303-585748.xml",
      OUTPUT_XML    |-> "dist/contratoSocial.updated.xml",
      OUTPUT_HTML   |-> "dist/index.html",
      OUTPUT_README |-> "dist/README.md" ]

VARIABLES
    replacements,   \* the REPLACEMENTS object that the script runs with
    env             \* process.env: the variables that the process is started with

\* ---------------------------------------------------------------------
\* Strings
\* ---------------------------------------------------------------------

RECURSIVE Flatten(_)
Flatten(ss) == IF ss = <<>> THEN <<>> ELSE Head(ss) \o Flatten(Tail(ss))

\* lit stands in text at position i.
OccursAt(text, lit, i) ==
    /\ i + Len(lit) - 1 <= Len(text)
    /\ SubSeq(text, i, i + Len(lit) - 1) = lit

\* Number of positions of text where lit stands.
Count(text, lit) == Cardinality({i \in 1..Len(text) : OccursAt(text, lit, i)})

\* String.prototype.includes
Includes(text, lit) == \E i \in 1..Len(text) : OccursAt(text, lit, i)

\* ---------------------------------------------------------------------
\* readAndReplaceXML: the regular expression built from one old literal
\* ---------------------------------------------------------------------

\* The characters of the class /[.*+?^${}()|[\]\\]/ .
RegExpSpecial == {".", "*", "+", "?", "^", "$", "{", "}", "(", ")", "|", "[", "]", "\\"}

\* old.replace(/[.*+?^${}()|[\]\\]/g, '\\$&'): a backslash before each
\* special character.
RECURSIVE EscapeRegExp(_)
\* (the literal used as the pattern source as it is)
EscapeRegExpNoEscape(old) == old
EscapeRegExp(old) ==
    IF old = <<>> THEN <<>>
    ELSE (IF Head(old) \in RegExpSpecial THEN <<"\\", Head(old)>> ELSE <<Head(old)>>)
         \o EscapeRegExp(Tail(old))

\* new RegExp(source, 'g'): the atoms of the pattern.  Of the pattern
\* syntax only what the keys of REPLACEMENTS can produce is compiled: an
\* escaped character, the wildcard '.', and an ordinary character.
RECURSIVE RegExpCompile(_)
RegExpCompile(source) ==
    IF source = <<>> THEN <<>>
    ELSE IF Head(source) = "\\" /\ Len(source) >= 2
         THEN <<[any |-> FALSE, ch |-> source[2]]>> \o RegExpCompile(Tail(Tail(source)))
    ELSE IF Head(source) = "."
         THEN <<[any |-> TRUE, ch |-> "."]>> \o RegExpCompile(Tail(source))
    ELSE <<[any |-> FALSE, ch |-> Head(source)]>> \o RegExpCompile(Tail(source))

\* One atom against one token; without the i flag the comparison is
\* case-sensitive, and '.' matches anything but a line terminator.
AtomMatches(atom, tok) ==
    IF atom.any THEN tok \notin {"\n", "\r"} ELSE atom.ch = tok

RegExpMatchesAt(text, atoms, i) ==
    /\ i + Len(atoms) - 1 <= Len(text)
    /\ \A k \in 1..Len(atoms) : AtomMatches(atoms[k], text[i + k - 1])

\* String.prototype.replace with a global regular expression: matches are
\* taken left to right, never overlapping, and the replaced text is not
\* scanned again.  scan is the state of the scan, the next position to
\* try and the output so far; ReplaceStep is one position of the loop.
ReplaceStep(text, atoms, newVal, scan, i) ==
    IF i < scan.next THEN scan
    ELSE IF Len(atoms) > 0 /\ RegExpMatchesAt(text, atoms, i)
         THEN [next |-> i + Len(atoms), out |-> scan.out \o newVal]
    ELSE [next |-> i + 1, out |-> Append(scan.out, text[i])]

\* The positions lo..hi in order (the range is halved to keep the
\* evaluation shallow; the test on left only orders the evaluation).
RECURSIVE ReplaceRange(_, _, _, _, _, _)
ReplaceRange(text, atoms, newVal, scan, lo, hi) ==
    IF lo > hi THEN scan
    ELSE IF lo = hi THEN ReplaceStep(text, atoms, newVal, scan, lo)
    ELSE LET mid == (lo + hi) \div 2
             left == ReplaceRange(text, atoms, newVal, scan, lo, mid)
         IN  IF left.next > mid
             THEN ReplaceRange(text, atoms, newVal, left, mid + 1, hi)
             ELSE left

ReplaceFrom(text, atoms, newVal, i) ==
    ReplaceRange(text, atoms, newVal, [next |-> i, out |-> <<>>], i, Len(text)).out

\* (the same expression without the g flag: the first match only)
ReplaceFirstOnly(text, old, newVal) ==
    IF \E i \in 1..Len(text) : RegExpMatchesAt(text, RegExpCompile(EscapeRegExp(old)), i)
    THEN LET i == CHOOSE j \in 1..Len(text) :
                    /\ RegExpMatchesAt(text, RegExpCompile(EscapeRegExp(old)), j)
                    /\ \A k \in 1..(j - 1) :
                          ~RegExpMatchesAt(text, RegExpCompile(EscapeRegExp(old)), k)
         IN SubSeq(text, 1, i - 1) \o newVal \o SubSeq(text, i + Len(old), Len(text))
    ELSE text
ReplaceGlobal(text, old, newVal) ==
    ReplaceFrom(text, RegExpCompile(EscapeRegExp(old)), newVal, 1)

\* The forEach over Object.entries(REPLACEMENTS), from entry k on.
RECURSIVE ApplyReplacements(_, _)
ApplyReplacements(text, k) ==
    IF k > Len(replacements) THEN text
    ELSE ApplyReplacements(ReplaceGlobal(text, replacements[k][1], replacements[k][2]), k + 1)

\* readAndReplaceXML, given the content of CONFIG.INPUT_FILE.
readAndReplaceXML(xmlContent) == ApplyReplacements(xmlContent, 1)

\* ---------------------------------------------------------------------
\* Markup tokens
\* ---------------------------------------------------------------------

XMLDSIG_NS == <<"h","t","t","p",":","/","/","w","w","w",".","w","3",".","o","r","g","/","2","0","0","0","/","0","9","/","x","m","l","d","s","i","g","#">>
OTHER_NS == <<"u","r","n",":","s","e","a","l">>
XMLDSIG == <<"x","m","l","d","s","i","g">>
SCHEMA_VERSION == <<"1",".","2">>

\* The element names of the contract schema that the script touches.
TagNames ==
    { "contratoSocial", "personaMoral", "nombreMoral", "nombreRepresentanteLegal",
      "rfc", "claveTramite", "correoElectronico", "folioTramite", "domicilio",
      "calle", "accionistas", "accionista", "nombre", "apellidoPaterno",
      "apellidoMaterno", "curp", "documentos", "documento", "descripcion",
      "uri", "informacion", "tipoDocumento", "Signature", "SignatureValue",
      "otroDocumento" }

COMMENT == "<!-- -->"
NEWLINE == "\n"
INDENT == "   "

\* Every tag of the model with what the parser reads from it: its kind
\* (open, close, or empty for a self-closing tag), its element name and
\* its attributes.
TagTable ==
    [tok \in {"<" \o n \o ">" : n \in TagNames} |->
        [kind |-> "open", name |-> CHOOSE n \in TagNames : tok = "<" \o n \o ">", attrs |-> <<>>]]
    @@ [tok \in {"</" \o n \o ">" : n \in TagNames} |->
        [kind |-> "close", name |-> CHOOSE n \in TagNames : tok = "</" \o n \o ">", attrs |-> <<>>]]
    @@ [tok \in {"<" \o n \o "/>" : n \in TagNames} |->
        [kind |-> "empty", name |-> CHOOSE n \in TagNames : tok = "<" \o n \o "/>", attrs |-> <<>>]]
    @@ [tok \in {"<Signature xmlns=\"http://www.w3.org/2000/09/xmldsig#\">"} |->
        [kind |-> "open", name |-> "Signature", attrs |-> << <<"@_xmlns", XMLDSIG_NS>> >>]]
    @@ [tok \in {"<Signature xmlns=\"http://www.w3.org/2000/09/xmldsig#\"/>"} |->
        [kind |-> "empty", name |-> "Signature", attrs |-> << <<"@_xmlns", XMLDSIG_NS>> >>]]
    @@ [tok \in {"<Signature xmlns=\"urn:seal\">"} |->
        [kind |-> "open", name |-> "Signature", attrs |-> << <<"@_xmlns", OTHER_NS>> >>]]
    @@ [tok \in {"<Signature xmlns=\"urn:seal\"/>"} |->
        [kind |-> "empty", name |-> "Signature", attrs |-> << <<"@_xmlns", OTHER_NS>> >>]]
    @@ [tok \in {"<contratoSocial version=\"1.2\">"} |->
        [kind |-> "open", name |-> "contratoSocial",
         attrs |-> << <<"@_version", SCHEMA_VERSION>> >>]]

TagTokens == DOMAIN TagTable

\* The tag that the builder writes for an element.
TagToken(kind, name, attrs) ==
    CHOOSE tok \in TagTokens : TagTable[tok] = [kind |-> kind, name |-> name, attrs |-> attrs]

\* ---------------------------------------------------------------------
\* JavaScript values of the parsed tree
\* ---------------------------------------------------------------------

Undefined == [t |-> "undefined"]
Null == [t |-> "null"]
Str(s) == [t |-> "str", s |-> s]
Num(s) == [t |-> "num", s |-> s]
\* An object: its own properties in insertion order, as <<key, value>>.
Obj(props) == [t |-> "obj", props |-> props]
\* An array: its items, and the named properties assigned to it.
Arr(items) == [t |-> "arr", items |-> items, props |-> <<>>]

HasOwn(props, key) == \E i \in 1..Len(props) : props[i][1] = key

PropValue(props, key) ==
    IF HasOwn(props, key)
    THEN props[CHOOSE i \in 1..Len(props) : props[i][1] = key][2]
    ELSE Undefined

\* v.key; reading a property of undefined throws, which the callers test
\* before they read.
Get(v, key) ==
    IF v.t \in {"obj", "arr"} THEN PropValue(v.props, key) ELSE Undefined

\* obj.key = val on an object or an array: an own property keeps its
\* place, a new one is appended.
SetProp(props, key, val) ==
    IF HasOwn(props, key)
    THEN [i \in 1..Len(props) |-> IF props[i][1] = key THEN <<key, val>> ELSE props[i]]
    ELSE Append(props, <<key, val>>)

Set(v, key, val) == [v EXCEPT !.props = SetProp(v.props, key, val)]

\* delete obj.key
Delete(v, key) ==
    [v EXCEPT !.props = SelectSeq(v.props, LAMBDA p : p[1] # key)]

\* ToBoolean
Truthy(v) ==
    CASE v.t = "undefined" -> FALSE
      [] v.t = "str" -> v.s # <<>>
      [] v.t = "num" -> v.s # <<"0">>
      [] v.t = "null" -> FALSE
      [] OTHER -> TRUE

\* Assigning a property to undefined or, in module (strict) code, to a
\* string or a number throws a TypeError.
CanAssign(v) == v.t \in {"obj", "arr"}

\* ---------------------------------------------------------------------
\* parser.parse (XMLParser with ignoreAttributes: false, attributeNamePrefix
\* '@_', textNodeName '#text', and the defaults otherwise)
\* ---------------------------------------------------------------------

Whitespace == {" ", "\n", "\t", "\r", INDENT}
Digits == {"0", "1", "2", "3", "4", "5", "6", "7", "8", "9"}

RECURSIVE TrimLeft(_)
TrimLeft(s) == IF s # <<>> /\ Head(s) \in Whitespace THEN TrimLeft(Tail(s)) ELSE s

RECURSIVE TrimRight(_)
TrimRight(s) ==
    IF s # <<>> /\ s[Len(s)] \in Whitespace THEN TrimRight(SubSeq(s, 1, Len(s) - 1)) ELSE s

\* String.prototype.trim (trimValues is on by default)
Trim(s) == TrimRight(TrimLeft(s))

RECURSIVE StripLeadingZeros(_)
StripLeadingZeros(s) ==
    IF Len(s) > 1 /\ Head(s) = "0" THEN StripLeadingZeros(Tail(s)) ELSE s

\* parseTagValue is on by default: a text that reads as a number becomes
\* a number, leading zeros dropped.  Only runs of decimal digits are
\* recognised here; the texts of the model hold no sign, decimal point,
\* hexadecimal or exponent form.
ParseValue(s) ==
    IF s # <<>> /\ \A i \in 1..Len(s) : s[i] \in Digits
    THEN Num(StripLeadingZeros(s))
    ELSE Str(s)

\* The text of a string or a number, as string concatenation renders it.
ToText(v) == IF v.t \in {"str", "num"} THEN v.s ELSE <<>>

NewFrame(attrs) == [attrs |-> attrs, props |-> <<>>, text |-> Undefined]

\* The text collected since the last tag is trimmed, dropped if empty,
\* parsed as a value and joined to the text the element already has.
SaveText(frame, textData) ==
    LET val == Trim(textData) IN
    IF val = <<>> THEN frame
    ELSE [frame EXCEPT !.text =
            IF frame.text.t = "undefined" THEN ParseValue(val)
            ELSE Str(ToText(frame.text) \o ToText(ParseValue(val)))]

\* The value of a finished element: its children in document order, then
\* its text under '#text', then its attributes; an element with nothing
\* but text is that text, and one with nothing at all is ''.
Compress(frame) ==
    LET withText == IF frame.text.t = "undefined" \/ frame.text = Str(<<>>)
                    THEN frame.props
                    ELSE Append(frame.props, <<"#text", frame.text>>)
    IN  IF frame.attrs # <<>> THEN Obj(withText \o frame.attrs)
        ELSE IF Len(withText) = 1 /\ withText[1][1] = "#text" THEN withText[1][2]
        ELSE IF withText = <<>> THEN Str(<<>>)
        ELSE Obj(withText)

\* A child is stored under its name; a second child of the same name
\* turns the property into an array.
AddChild(frame, name, val) ==
    LET old == PropValue(frame.props, name) IN
    [frame EXCEPT !.props =
        IF ~HasOwn(frame.props, name) THEN Append(frame.props, <<name, val>>)
        ELSE IF old.t = "arr"
             THEN SetProp(frame.props, name, [old EXCEPT !.items = Append(old.items, val)])
        ELSE SetProp(frame.props, name, Arr(<<old, val>>))]

\* One token of the parser's loop: stack holds the open elements, the
\* innermost last, and textData the text collected since the last tag.
\* A comment is skipped without ending the text in which it stands (no
\* commentPropName is set).
ParseStep(st, tok) ==
    LET n == Len(st.stack)
        saved == SaveText(st.stack[n], st.textData)
    IN
    IF tok = COMMENT THEN st
    ELSE IF tok \notin TagTokens THEN [st EXCEPT !.textData = Append(@, tok)]
    ELSE LET tag == TagTable[tok] IN
         CASE tag.kind = "open" ->
                [stack |-> [st.stack EXCEPT ![n] = saved] \o <<NewFrame(tag.attrs)>>,
                 textData |-> <<>>]
           [] tag.kind = "empty" ->
                [stack |-> [st.stack EXCEPT
                               ![n] = AddChild(saved, tag.name, Compress(NewFrame(tag.attrs)))],
                 textData |-> <<>>]
           [] tag.kind = "close" /\ n >= 2 ->
                [stack |-> [k \in 1..(n - 1) |->
                               IF k = n - 1
                               THEN AddChild(st.stack[k], tag.name, Compress(saved))
                               ELSE st.stack[k]],
                 textData |-> <<>>]
           [] OTHER -> [st EXCEPT !.textData = <<>>]

\* The tokens lo..hi in order (the range is halved to keep the
\* evaluation shallow; the test on left only orders the evaluation).
RECURSIVE ParseRange(_, _, _, _)
ParseRange(text, st, lo, hi) ==
    IF lo > hi THEN st
    ELSE IF lo = hi THEN ParseStep(st, text[lo])
    ELSE LET mid == (lo + hi) \div 2
             left == ParseRange(text, st, lo, mid)
         IN  IF Len(left.stack) > 0
             THEN ParseRange(text, left, mid + 1, hi)
             ELSE left

ParseFrom(text, i, stack, textData) ==
    Compress(ParseRange(text, [stack |-> stack, textData |-> textData], i, Len(text)).stack[1])

Parse(text) == ParseFrom(text, 1, <<NewFrame(<<>>)>>, <<>>)

\* ---------------------------------------------------------------------
\* serializeXML (XMLBuilder with format: true, indentBy three spaces)
\* ---------------------------------------------------------------------

IsAttr(key) == key \in {"@_xmlns", "@_version"}

Indentate(level) == [k \in 1..level |-> INDENT]

AttrsOf(v) == SelectSeq(v.props, LAMBDA p : IsAttr(p[1]))

\* A text value between its tags on one line.
BuildTextValNode(val, key, attrs, level) ==
    Indentate(level) \o <<TagToken("open", key, attrs)>> \o ToText(val)
        \o <<TagToken("close", key, <<>>), NEWLINE>>

RECURSIVE J2x(_, _), BuildNode(_, _, _), BuildItems(_, _, _, _), BuildProps(_, _, _)

\* The children of an object, in the order of its keys; attributes go
\* into the tag and '#text' is written as bare text.
BuildProps(props, k, level) ==
    IF k > Len(props) THEN <<>>
    ELSE LET key == props[k][1]
             val == props[k][2]
         IN  (CASE IsAttr(key) -> <<>>
                [] val.t = "undefined" -> <<>>
                [] key = "#text" -> ToText(val)
                [] val.t = "arr" -> BuildItems(val.items, 1, key, level)
                [] OTHER -> BuildNode(val, key, level))
             \o BuildProps(props, k + 1, level)

J2x(obj, level) == BuildProps(obj.props, 1, level)

BuildItems(items, k, key, level) ==
    IF k > Len(items) THEN <<>>
    ELSE (IF items[k].t = "undefined" THEN <<>> ELSE BuildNode(items[k], key, level))
         \o BuildItems(items, k + 1, key, level)

\* One element: a primitive or an object holding only '#text' is a text
\* node; an object without content is an empty pair of tags; text with
\* attributes stays on one line; anything else is indented children.
BuildNode(val, key, level) ==
    IF val.t \in {"str", "num"} THEN BuildTextValNode(val, key, <<>>, level)
    ELSE IF val.t = "arr" THEN BuildItems(val.items, 1, key, level)
    ELSE LET attrs == AttrsOf(val)
             inner == J2x(val, level + 1)
         IN  IF Len(val.props) = 1 /\ HasOwn(val.props, "#text")
             THEN BuildTextValNode(PropValue(val.props, "#text"), key, attrs, level)
             ELSE IF inner = <<>>
             THEN Indentate(level)
                    \o <<TagToken("open", key, attrs), TagToken("close", key, <<>>), NEWLINE>>
             ELSE IF attrs # <<>> /\ \A j \in 1..Len(inner) : inner[j] \notin TagTokens
             THEN Indentate(level) \o <<TagToken("open", key, attrs)>> \o inner
                    \o <<TagToken("close", key, <<>>), NEWLINE>>
             ELSE Indentate(level) \o <<TagToken("open", key, attrs), NEWLINE>> \o inner
                    \o Indentate(level) \o <<TagToken("close", key, <<>>), NEWLINE>>

serializeXML(xmlObj) == J2x(xmlObj, 0)

\* ---------------------------------------------------------------------
\* parseAndPatchXML
\* ---------------------------------------------------------------------

\* String.prototype.replace with a string pattern: the first occurrence
\* only.
StringReplace(s, pattern, replacement) ==
    IF Includes(s, pattern)
    THEN LET i == CHOOSE j \in 1..Len(s) :
                    /\ OccursAt(s, pattern, j)
                    /\ \A k \in 1..(j - 1) : ~OccursAt(s, pattern, k)
         IN  SubSeq(s, 1, i - 1) \o replacement \o SubSeq(s, i + Len(pattern), Len(s))
    ELSE s

\* item => !item || !item['@_xmlns']?.includes('xmldsig')
KeepsSignatureItem(item) ==
    \/ ~Truthy(item)
    \/ Get(item, "@_xmlns").t # "str"
    \/ ~Includes(Get(item, "@_xmlns").s, XMLDSIG)

\* The two statements that remove the Signature nodes of the root.
RemoveSignature(cs) ==
    LET deleted == IF Truthy(Get(cs, "Signature")) THEN Delete(cs, "Signature") ELSE cs
        sig == Get(deleted, "Signature")
    IN  IF sig.t = "arr"
        THEN Set(deleted, "Signature",
                 [sig EXCEPT !.items = SelectSeq(sig.items, KeepsSignatureItem)])
        ELSE deleted

\* (the assignment of the representative name left out)
PatchPersonaMoralKeepName(personaMoral) ==
    Set(personaMoral, "claveTramite",
        Str(StringReplace(Get(personaMoral, "claveTramite").s, OLD_RFC, NEW_RFC)))
\* The two assignments to personaMoral.
PatchPersonaMoral(personaMoral) ==
    LET named == Set(personaMoral, "nombreRepresentanteLegal", Str(NEW_NAME))
    IN  Set(named, "claveTramite",
            Str(StringReplace(Get(named, "claveTramite").s, OLD_RFC, NEW_RFC)))

\* (the two surnames exchanged)
PatchAccionistaSwapped(accionista) ==
    Set(Set(Set(Set(Set(accionista,
        "rfc", Str(NEW_RFC)),
        "curp", Str(NEW_CURP)),
        "nombre", Str(<<"E","D","U","A","R","D","O">>)),
        "apellidoPaterno", Str(<<"P","A","Z">>)),
        "apellidoMaterno", Str(<<"R","O","S","A","L","E","S">>))
\* The five assignments to the accionista.
PatchAccionista(accionista) ==
    Set(Set(Set(Set(Set(accionista,
        "rfc", Str(NEW_RFC)),
        "curp", Str(NEW_CURP)),
        "nombre", Str(<<"E","D","U","A","R","D","O">>)),
        "apellidoPaterno", Str(<<"R","O","S","A","L","E","S">>)),
        "apellidoMaterno", Str(<<"P","A","Z">>))

\* The statements of parseAndPatchXML that throw a TypeError: a property
\* read or written on undefined, a property written on a string or a
\* number, and replace called on what is no string.
PatchThrows(xmlObj) ==
    LET cs == Get(xmlObj, "contratoSocial")
        personaMoral == Get(cs, "personaMoral")
        accionistas == Get(cs, "accionistas")
    IN  \/ cs.t = "undefined"
        \/ ~CanAssign(personaMoral)
        \/ Get(personaMoral, "claveTramite").t # "str"
        \/ accionistas.t = "undefined"
        \/ ~CanAssign(Get(accionistas, "accionista"))

\* The tree as patched, when no statement throws.
Patch(xmlObj) ==
    LET cs == RemoveSignature(Get(xmlObj, "contratoSocial"))
        cs1 == Set(cs, "personaMoral", PatchPersonaMoral(Get(cs, "personaMoral")))
        accionistas == Get(cs1, "accionistas")
        cs2 == Set(cs1, "accionistas",
                   Set(accionistas, "accionista",
                       PatchAccionista(Get(accionistas, "accionista"))))
    IN  Set(xmlObj, "contratoSocial", cs2)

parseAndPatchXML(content) ==
    LET xmlObj == Parse(content) IN
    IF PatchThrows(xmlObj) THEN [threw |-> TRUE, value |-> Undefined]
    ELSE [threw |-> FALSE, value |-> Patch(xmlObj)]

\* ---------------------------------------------------------------------
\* generateQRCode, buildHTML, createDeployREADME
\* ---------------------------------------------------------------------

\* What QRCode.toDataURL resolves to for a URL: a PNG data URL that
\* encodes it.
DataURL(url) == [t |-> "str", s |-> <<"data:image/png;base64,">>, encodes |-> url]

\* The two outcomes of generateQRCode: the data URL, or null when
\* toDataURL rejects (the catch block returns null).
QROutcomes == {DataURL(CONFIG.QR_TARGET_URL), Null}

\* ${value} in a template literal.
Display(v) ==
    CASE v.t \in {"str", "num"} -> v.s
      [] v.t = "undefined" -> <<"u","n","d","e","f","i","n","e","d">>
      [] v.t = "null" -> <<"n","u","l","l">>
      [] v.t = "arr" -> <<"[","a","r","r","a","y","]">>
      [] OTHER -> <<"[","o","b","j","e","c","t"," ","O","b","j","e","c","t","]">>

\* (the template without the test of data.documentos before the map)
BuildHTMLThrowsUnguarded(xmlObj) ==
    LET data == Get(xmlObj, "contratoSocial")
        personaMoral == Get(data, "personaMoral")
        documentos == Get(data, "documentos")
    IN  \/ Get(personaMoral, "domicilio").t = "undefined"
        \/ Get(documentos, "documento").t # "arr"
        \/ Get(data, "informacion").t = "undefined"
\* The expressions of the template that throw a TypeError: a property
\* read on undefined, and map called on what is no array.
BuildHTMLThrows(xmlObj) ==
    LET data == Get(xmlObj, "contratoSocial")
        personaMoral == Get(data, "personaMoral")
        documentos == Get(data, "documentos")
    IN  \/ Get(personaMoral, "domicilio").t = "undefined"
        \/ Truthy(documentos) /\ Get(documentos, "documento").t # "arr"
        \/ Get(data, "informacion").t = "undefined"

\* One card per entry of documentos.documento.
DocumentCards(documentos) ==
    LET items == Get(documentos, "documento").items IN
    [i \in 1..Len(items) |->
        [descripcion |-> Display(Get(items[i], "descripcion")),
         uri |-> Display(Get(items[i], "uri"))]]

\* The content of the qr-container: the image, or the placeholder when
\* qrDataURL is falsy.
\* (the container showing the image element whatever qrDataURL is)
QRContainerAlwaysImage(qrDataURL) == "img"
QRContainer(qrDataURL) == IF Truthy(qrDataURL) THEN "img" ELSE "QR Code no disponible"

\* The report, as the fields that the template fills in.
buildHTML(xmlObj, qrDataURL) ==
    LET data == Get(xmlObj, "contratoSocial")
        personaMoral == Get(data, "personaMoral")
        accionista == Get(Get(data, "accionistas"), "accionista")
        documentos == Get(data, "documentos")
    IN  [ nombreMoral |-> Display(Get(personaMoral, "nombreMoral")),
          representanteLegal |-> Display(Get(personaMoral, "nombreRepresentanteLegal")),
          rfc |-> Display(Get(accionista, "rfc")),
          curp |-> Display(Get(accionista, "curp")),
          correoElectronico |-> Display(Get(personaMoral, "correoElectronico")),
          accionista |-> Display(Get(accionista, "nombre")) \o <<" ">>
                           \o Display(Get(accionista, "apellidoPaterno")) \o <<" ">>
                           \o Display(Get(accionista, "apellidoMaterno")),
          cards |-> IF Truthy(documentos) THEN DocumentCards(documentos) ELSE <<>>,
          fallback |-> IF Truthy(documentos) THEN "" ELSE "No hay documentos disponibles",
          qr |-> QRContainer(qrDataURL),
          qrImage |-> qrDataURL,
          url |-> CONFIG.QR_TARGET_URL,
          claveTramite |-> Display(Get(personaMoral, "claveTramite")),
          folioTramite |-> Display(Get(personaMoral, "folioTramite")),
          tipoDocumento |-> Display(Get(Get(data, "informacion"), "tipoDocumento")) ]

\* The deployment note: static text naming the artifacts and the target
\* URL (the timestamp is left out).
createDeployREADME ==
    [ files |-> <<"contratoSocial.updated.xml", "index.html", "README.md">>,
      url |-> CONFIG.QR_TARGET_URL ]

\* ---------------------------------------------------------------------
\* Input documents
\* ---------------------------------------------------------------------

El(name, content) == <<"<" \o name \o ">">> \o content \o <<"</" \o name \o ">">>

NEAR_EMAIL == <<"f","a","c","t","u","r","a","s","X","j","m","g","@","o","u","t","l","o","o","k",".","c","o","m">>
LOWER_NAME == <<"J","o","r","g","e"," ","M","e","d","i","n","a"," ","G","o","n","z","a","l","e","z">>
\* The old tax-id with a comment inside it.
SPLIT_RFC == <<"M","E","G","J","6","4","0", COMMENT, "1","0","7","Q","S","A">>

\* The pieces of which the text of a field is made: old literals, a new
\* literal, texts one character away from an old literal, and an old
\* literal cut by a comment.
Chunks == {OLD_RFC, OLD_CURP, OLD_EMAIL, NEW_RFC, NEAR_EMAIL, SPLIT_RFC}

RECURSIVE ChunkRuns(_)
ChunkRuns(n) ==
    IF n = 0 THEN {<<>>}
    ELSE ChunkRuns(n - 1) \cup
         {r \o c : r \in ChunkRuns(n - 1), c \in Chunks}

Texts == ChunkRuns(MaxChunks)

SignatureKinds == {"dsig", "seal", "empty"}

RECURSIVE SignatureRuns(_)
SignatureRuns(n) ==
    IF n = 0 THEN {<<>>}
    ELSE SignatureRuns(n - 1) \cup
         {Append(r, k) : r \in SignatureRuns(n - 1), k \in SignatureKinds}

\* The elements that a document can lack.
Omittable ==
    { "personaMoral", "accionistas", "accionista", "nombreRepresentanteLegal",
      "claveTramite", "rfc", "curp", "nombre", "apellidoPaterno",
      "apellidoMaterno", "domicilio", "informacion" }

BaseClave == <<"S","A","S","-">> \o OLD_RFC \o <<"-","2","3">>

\* A document of the contract schema: its root element, the Signature
\* elements under the root, the elements it lacks, the number of
\* documento entries (-1: no documentos element), and the text of the
\* fields whose text varies, whether the root carries its version
\* attribute, and the number of accionista elements.
BaseDoc ==
    [ root |-> "contratoSocial", sigs |-> <<>>, omit |-> {}, docs |-> 2,
      sigText |-> <<"x">>, nombreRepresentanteLegal |-> OLD_NAME,
      claveTramite |-> BaseClave, correoElectronico |-> OLD_EMAIL,
      folioTramite |-> <<"5","8","5">>, version |-> FALSE, holders |-> 1 ]

\* Digits on both sides of a child element.
MIXED_FOLIO == <<"5","8","<uri/>","5">>

\* The documents of the model: the text of an unpatched leaf and of
\* claveTramite runs over Texts, the text inside a signature over the
\* chunks, and the shape over the Signature runs, the omitted elements
\* and the length of the documentos list.
InputDocs ==
    {[BaseDoc EXCEPT !.correoElectronico = t] : t \in Texts}
    \cup {[BaseDoc EXCEPT !.claveTramite = t] : t \in Texts}
    \cup {[BaseDoc EXCEPT !.sigs = <<"dsig">>, !.sigText = t] : t \in Chunks \cup {OLD_NAME}}
    \cup {[BaseDoc EXCEPT !.nombreRepresentanteLegal = t] : t \in {<<>>, NEW_NAME, LOWER_NAME}}
    \cup {[BaseDoc EXCEPT !.sigs = s] : s \in SignatureRuns(MaxSignatures)}
    \cup {[BaseDoc EXCEPT !.sigs = s, !.omit = {e}] :
            s \in {<<>>, <<"dsig">>}, e \in Omittable}
    \cup {[BaseDoc EXCEPT !.sigs = s, !.docs = n] :
            s \in {<<>>, <<"dsig">>}, n \in -1..MaxDocs}
    \cup {[BaseDoc EXCEPT !.root = "otroDocumento"]}
    \cup {[BaseDoc EXCEPT !.version = TRUE, !.sigs = s] : s \in {<<>>, <<"empty">>}}
    \cup {[BaseDoc EXCEPT !.folioTramite = MIXED_FOLIO]}
    \cup {[BaseDoc EXCEPT !.holders = 2, !.omit = o] : o \in {{}, {"rfc"}, {"nombre"}}}

Opt(doc, name, content) == IF name \in doc.omit THEN <<>> ELSE El(name, content)

SignatureElement(kind, text) ==
    CASE kind = "dsig" ->
            <<"<Signature xmlns=\"http://www.w3.org/2000/09/xmldsig#\">">>
                \o El("SignatureValue", text) \o <<"</Signature>">>
      [] kind = "seal" ->
            <<"<Signature xmlns=\"urn:seal\">">>
                \o El("SignatureValue", <<"x">>) \o <<"</Signature>">>
      [] OTHER -> <<"<Signature/>">>

DocLabels == <<"a", "b", "c", "d", "e", "f", "g", "h">>

DocumentoElement(i) ==
    El("documento",
       El("descripcion", <<"D", DocLabels[((i - 1) % Len(DocLabels)) + 1]>>)
       \o El("uri", <<"u", DocLabels[((i - 1) % Len(DocLabels)) + 1]>>))

\* The text of the input file for a document.
Render(doc) ==
    (IF doc.version THEN <<"<contratoSocial version=\"1.2\">">>
     ELSE <<"<" \o doc.root \o ">">>)
    \o (Opt(doc, "informacion", El("tipoDocumento", <<"C","S">>))
       \o Opt(doc, "personaMoral",
            El("nombreMoral", <<"T","I","S","K","A">>)
            \o Opt(doc, "nombreRepresentanteLegal", doc.nombreRepresentanteLegal)
            \o Opt(doc, "claveTramite", doc.claveTramite)
            \o El("folioTramite", doc.folioTramite)
            \o El("correoElectronico", doc.correoElectronico)
            \o Opt(doc, "domicilio", El("calle", <<"c">>)))
       \o Opt(doc, "accionistas",
            Flatten([h \in 1..doc.holders |->
              Opt(doc, "accionista",
                Opt(doc, "nombre", <<"J","O","R","G","E">>)
                \o Opt(doc, "apellidoPaterno", <<"M","E","D","I","N","A">>)
                \o Opt(doc, "apellidoMaterno", <<"G","O","N","Z","A","L","E","Z">>)
                \o Opt(doc, "rfc", OLD_RFC)
                \o Opt(doc, "curp", OLD_CURP))]))
       \o (IF doc.docs < 0 THEN <<>>
           ELSE El("documentos", Flatten([i \in 1..doc.docs |-> DocumentoElement(i)])))
       \o Flatten([i \in 1..Len(doc.sigs) |-> SignatureElement(doc.sigs[i], doc.sigText)]))
    \o <<"</" \o doc.root \o ">">>

\* ---------------------------------------------------------------------
\* transform: the state of one run
\* ---------------------------------------------------------------------

VARIABLES
    pc,             \* the statement of transform that runs next
    distDir,        \* whether the directory dist exists
    disk,           \* the files: the input file and the three artifacts
    xmlContent,     \* the text returned by readAndReplaceXML
    xmlObj,         \* the tree returned by parseAndPatchXML
    serializedXML,  \* the text returned by serializeXML
    qrDataURL,      \* the value that generateQRCode resolved to
    exitCode,       \* the exit code of the process, -1 while it runs
    stdout,         \* the lines written with console.log
    stderr          \* the lines written with console.error

vars == <<replacements, env, pc, distDir, disk, xmlContent, xmlObj, serializedXML,
          qrDataURL, exitCode, stdout, stderr>>

Paths == {CONFIG.INPUT_FILE, CONFIG.OUTPUT_XML, CONFIG.OUTPUT_HTML, CONFIG.OUTPUT_README}
Artifacts == {CONFIG.OUTPUT_XML, CONFIG.OUTPUT_HTML, CONFIG.OUTPUT_README}

NoFile == [exists |-> FALSE, content |-> <<>>]
File(content) == [exists |-> TRUE, content |-> content]
\* An artifact that an earlier run left in dist.
StaleFile == [exists |-> TRUE, content |-> <<"(earlier run)">>]

\* The input file of the run: a document of the schema, an empty file, or
\* no file at all.
InputFiles == {File(Render(doc)) : doc \in InputDocs} \cup {File(<<>>), NoFile}

\* The input files for which the run also starts with the artifacts of an
\* earlier run in dist.
RerunInputFiles ==
    { File(Render(BaseDoc)),
      File(Render([BaseDoc EXCEPT !.docs = 1])),
      File(Render([BaseDoc EXCEPT !.omit = {"accionista"}])),
      NoFile }

\* ensureDistDir: dist exists from here on.
ensureDistDir == distDir' = TRUE

\* process.env without and with QR_TARGET_URL (the value of the README).
NoEnv == [n \in {} |-> ""]
EnvWithURL == [n \in {"QR_TARGET_URL"} |-> "https://production-site.com/contrato/585748"]

\* The state in which transform is called.
StartState(input, stale) ==
    /\ pc = "readAndReplaceXML"
    /\ distDir = stale
    /\ disk = [p \in Paths |-> IF p = CONFIG.INPUT_FILE THEN input
                               ELSE IF stale THEN StaleFile ELSE NoFile]
    /\ xmlContent = <<>>
    /\ xmlObj = Undefined
    /\ serializedXML = <<>>
    /\ qrDataURL = Undefined
    /\ exitCode = -1
    /\ stdout = <<>>
    /\ stderr = <<>>

Init ==
    /\ replacements = REPLACEMENTS
    /\ \/ env = NoEnv /\ \E input \in InputFiles : StartState(input, FALSE)
       \/ env = NoEnv /\ \E input \in RerunInputFiles : StartState(input, TRUE)
       \/ env = EnvWithURL /\ \E input \in RerunInputFiles : StartState(input, FALSE)

\* (the catch block ending the process with code 0)
AbortExitZero(error) ==
    /\ pc' = "exited"
    /\ exitCode' = 0
    /\ stderr' = Append(stderr, [message |-> "Transformation failed:", error |-> error])
\* catch (error) { console.error(...); process.exit(1); }
Abort(error) ==
    /\ pc' = "exited"
    /\ exitCode' = 1
    /\ stderr' = Append(stderr, [message |-> "Transformation failed:", error |-> error])

\* fs.writeFileSync(path, content): the file holds the content, or the call
\* throws (no permission, no space) and the file stays as it was.
WriteFileSync(path, content) == disk' = [disk EXCEPT ![path] = File(content)]

\* ensureDistDir and step 1: fs.readFileSync throws when the input file
\* does not exist or cannot be read.
ReadAndReplace ==
    /\ pc = "readAndReplaceXML"
    /\ ensureDistDir
    /\ stdout' = stdout \o <<"Starting XML transformation...",
                            "Reading and replacing XML content...">>
    /\ \/ /\ disk[CONFIG.INPUT_FILE].exists
          /\ xmlContent' = readAndReplaceXML(disk[CONFIG.INPUT_FILE].content)
          /\ pc' = "parseAndPatchXML"
          /\ UNCHANGED <<exitCode, stderr>>
       \/ /\ ~disk[CONFIG.INPUT_FILE].exists
          /\ Abort("ENOENT")
          /\ UNCHANGED xmlContent
       \/ /\ disk[CONFIG.INPUT_FILE].exists
          /\ Abort("EACCES")
          /\ UNCHANGED xmlContent
    /\ UNCHANGED <<replacements, env, disk, xmlObj, serializedXML, qrDataURL>>

\* (step 2 recovering from a throw of the patch: the run goes on with the
\* tree as parsed)
ParseAndPatchRecovering ==
    /\ pc = "parseAndPatchXML"
    /\ stdout' = Append(stdout, "Parsing and patching structured fields...")
    /\ LET result == parseAndPatchXML(xmlContent) IN
       xmlObj' = IF result.threw THEN Parse(xmlContent) ELSE result.value
    /\ pc' = "serializeXML"
    /\ UNCHANGED <<replacements, env, distDir, disk, xmlContent, serializedXML, qrDataURL,
                   exitCode, stderr>>
\* Step 2
ParseAndPatch ==
    /\ pc = "parseAndPatchXML"
    /\ stdout' = Append(stdout, "Parsing and patching structured fields...")
    /\ LET result == parseAndPatchXML(xmlContent) IN
       \/ /\ ~result.threw
          /\ xmlObj' = result.value
          /\ pc' = "serializeXML"
          /\ UNCHANGED <<exitCode, stderr>>
       \/ /\ result.threw
          /\ Abort("TypeError")
          /\ UNCHANGED xmlObj
    /\ UNCHANGED <<replacements, env, distDir, disk, xmlContent, serializedXML, qrDataURL>>

\* Step 3
Serialize ==
    /\ pc = "serializeXML"
    /\ stdout' = Append(stdout, "Serializing XML...")
    /\ serializedXML' = serializeXML(xmlObj)
    /\ pc' = "writeXML"
    /\ UNCHANGED <<replacements, env, distDir, disk, xmlContent, xmlObj, qrDataURL,
                   exitCode, stderr>>

\* Step 4
WriteXML ==
    /\ pc = "writeXML"
    /\ \/ /\ WriteFileSync(CONFIG.OUTPUT_XML, serializedXML)
          /\ stdout' = Append(stdout, "XML written to " \o CONFIG.OUTPUT_XML)
          /\ pc' = "generateQRCode"
          /\ UNCHANGED <<exitCode, stderr>>
       \/ /\ Abort("EACCES")
          /\ UNCHANGED <<disk, stdout>>
    /\ UNCHANGED <<replacements, env, distDir, xmlContent, xmlObj, serializedXML, qrDataURL>>

\* (step 5 without the await: qrDataURL holds the pending promise)
GenerateQRCodeNotAwaited ==
    /\ pc = "generateQRCode"
    /\ stdout' = Append(stdout, "Generating QR code...")
    /\ qrDataURL' = [t |-> "promise"]
    /\ pc' = "buildHTML"
    /\ UNCHANGED <<replacements, env, distDir, disk, xmlContent, xmlObj, serializedXML,
                   exitCode, stderr>>
\* Step 5: the await of generateQRCode, which never rejects; its catch
\* block logs the failure and returns null.
GenerateQRCode ==
    /\ pc = "generateQRCode"
    /\ stdout' = Append(stdout, "Generating QR code...")
    /\ qrDataURL' \in QROutcomes
    /\ stderr' = IF qrDataURL' = Null
                 THEN Append(stderr, [message |-> "QR Code generation failed:",
                                      error |-> "Error"])
                 ELSE stderr
    /\ pc' = "buildHTML"
    /\ UNCHANGED <<replacements, env, distDir, disk, xmlContent, xmlObj, serializedXML,
                   exitCode>>

\* (step 6 outside the try block: a throw of buildHTML is not caught and
\* the run goes on)
BuildAndWriteHTMLUncaught ==
    /\ pc = "buildHTML"
    /\ stdout' = Append(stdout, "Building HTML...")
    /\ IF BuildHTMLThrows(xmlObj) THEN UNCHANGED disk
       ELSE WriteFileSync(CONFIG.OUTPUT_HTML, buildHTML(xmlObj, qrDataURL))
    /\ pc' = "createDeployREADME"
    /\ UNCHANGED <<replacements, env, distDir, xmlContent, xmlObj, serializedXML, qrDataURL,
                   exitCode, stderr>>
\* Step 6
BuildAndWriteHTML ==
    /\ pc = "buildHTML"
    /\ \/ /\ ~BuildHTMLThrows(xmlObj)
          /\ WriteFileSync(CONFIG.OUTPUT_HTML, buildHTML(xmlObj, qrDataURL))
          /\ stdout' = stdout \o <<"Building HTML...",
                                  "HTML written to " \o CONFIG.OUTPUT_HTML>>
          /\ pc' = "createDeployREADME"
          /\ UNCHANGED <<exitCode, stderr>>
       \/ /\ ~BuildHTMLThrows(xmlObj)
          /\ stdout' = Append(stdout, "Building HTML...")
          /\ Abort("EACCES")
          /\ UNCHANGED disk
       \/ /\ BuildHTMLThrows(xmlObj)
          /\ stdout' = Append(stdout, "Building HTML...")
          /\ Abort("TypeError")
          /\ UNCHANGED disk
    /\ UNCHANGED <<replacements, env, distDir, xmlContent, xmlObj, serializedXML, qrDataURL>>

\* Step 7, after which transform returns and the process ends.
WriteREADME ==
    /\ pc = "createDeployREADME"
    /\ \/ /\ WriteFileSync(CONFIG.OUTPUT_README, createDeployREADME)
          /\ stdout' = stdout \o <<"Creating deployment README...",
                                  "README written to " \o CONFIG.OUTPUT_README,
                                  "Transformation complete!",
                                  "Files created in dist/ directory",
                                  "Ready for deployment to any static host">>
          /\ pc' = "exited"
          /\ exitCode' = 0
          /\ UNCHANGED stderr
       \/ /\ stdout' = Append(stdout, "Creating deployment README...")
          /\ Abort("EACCES")
          /\ UNCHANGED disk
    /\ UNCHANGED <<replacements, env, distDir, xmlContent, xmlObj, serializedXML, qrDataURL>>

Next ==
    \/ ReadAndReplace
    \/ ParseAndPatch
    \/ Serialize
    \/ WriteXML
    \/ GenerateQRCode
    \/ BuildAndWriteHTML
    \/ WriteREADME

Spec == Init /\ [][Next]_vars

\* ---------------------------------------------------------------------
\* Runs with an edited REPLACEMENTS object
\* ---------------------------------------------------------------------

RFC_PREFIX == <<"M","E","G","J","6","4","0","1","0","7">>
RFC_TAIL == <<"Q","S","A","-","2","3">>

\* An old literal that is a substring of two others.
TableSubstring ==
    << <<RFC_PREFIX, <<"X">>>>, <<OLD_RFC, NEW_RFC>>, <<OLD_CURP, NEW_CURP>> >>

\* An old literal that starts with the end of another.
TableSuffixPrefix ==
    << <<OLD_RFC, NEW_RFC>>, <<RFC_TAIL, <<"Y">>>> >>

ConfigTables == {REPLACEMENTS, TableSubstring, TableSuffixPrefix}

ConfigInputFiles ==
    {File(Render([BaseDoc EXCEPT !.docs = n])) : n \in -1..MaxDocs}
    \cup {File(Render([BaseDoc EXCEPT !.correoElectronico = c])) : c \in Chunks}
    \cup {NoFile}

InitConfig ==
    /\ replacements \in ConfigTables
    /\ env = NoEnv
    /\ \E input \in ConfigInputFiles : StartState(input, FALSE)

SpecConfig == InitConfig /\ [][Next]_vars

\* ---------------------------------------------------------------------
\* Properties
\* ---------------------------------------------------------------------

InputText == disk[CONFIG.INPUT_FILE].content

\* The tree as the parser returned it, before any patch.
ParsedTree == Parse(xmlContent)

Root(tree) == Get(tree, "contratoSocial")
PersonaMoralOf(tree) == Get(Root(tree), "personaMoral")
AccionistaOf(tree) == Get(Get(Root(tree), "accionistas"), "accionista")

\* parseAndPatchXML has just returned the tree in xmlObj.
Patched == pc = "serializeXML"

\* C1: after parseAndPatchXML the root has no Signature child at all,
\* whatever the parser produced for it (a node, a sequence, an empty
\* node).
C1_NoSignatureChild ==
    Patched => ~HasOwn(Root(xmlObj).props, "Signature")

\* C2: the serialized output holds no occurrence of any old literal of
\* REPLACEMENTS.
C2_NoOldLiteralInOutput ==
    pc = "writeXML" =>
        \A k \in 1..Len(REPLACEMENTS) : Count(serializedXML, REPLACEMENTS[k][1]) = 0

\* C3 as stated: for every replacement the new literal occurs in the
\* serialized output as often as the old literal occurs in the input.
C3_NewCountInOutputIsOldCountInInput ==
    pc = "writeXML" =>
        \A k \in 1..Len(REPLACEMENTS) :
            Count(serializedXML, REPLACEMENTS[k][2]) = Count(InputText, REPLACEMENTS[k][1])

\* C3 as amended: for every replacement the new literal occurs in the
\* text returned by readAndReplaceXML as often as the old literal and the
\* new literal together occur in the input text.
C3_NewCountAfterTextPass ==
    pc = "parseAndPatchXML" =>
        \A k \in 1..Len(REPLACEMENTS) :
            Count(xmlContent, REPLACEMENTS[k][2])
                = Count(InputText, REPLACEMENTS[k][1]) + Count(InputText, REPLACEMENTS[k][2])

C3_Witness ==
    /\ pc = "parseAndPatchXML"
    /\ Count(InputText, OLD_RFC) >= 2
    /\ Count(InputText, NEW_RFC) >= 1
    /\ Count(xmlContent, NEW_RFC) >= 3

\* after is before with every occurrence of old replaced by new and no
\* other change: the occurrences of old stand at the positions occ of
\* before, new stands in after where each of them stood, and every other
\* token of before stands in after, shifted by the replacements to its
\* left.
IsLiteralReplacement(before, after, old, new) ==
    LET occ == {i \in 1..Len(before) : OccursAt(before, old, i)}
        delta == Len(new) - Len(old)
        shift(j) == delta * Cardinality({i \in occ : i < j})
        covered(j) == \E i \in occ : i <= j /\ j < i + Len(old)
    IN  /\ Len(after) = Len(before) + delta * Cardinality(occ)
        /\ \A i \in occ : OccursAt(after, new, i + shift(i))
        /\ \A j \in 1..Len(before) : ~covered(j) => after[j + shift(j)] = before[j]

\* The input text and the text after each entry of REPLACEMENTS, up to
\* entry k.
RECURSIVE TextsAfter(_)
TextsAfter(k) ==
    IF k = 0 THEN <<InputText>>
    ELSE LET prev == TextsAfter(k - 1) IN
         Append(prev, ReplaceGlobal(prev[k], REPLACEMENTS[k][1], REPLACEMENTS[k][2]))

\* C4: each replacement of readAndReplaceXML replaces every exact,
\* case-sensitive occurrence of its old literal and nothing else, so a
\* text one character away from an old literal stays as it is.
C4_ExactLiteralReplacement ==
    pc = "parseAndPatchXML" =>
        LET texts == TextsAfter(Len(REPLACEMENTS)) IN
        /\ xmlContent = texts[Len(REPLACEMENTS) + 1]
        /\ \A k \in 1..Len(REPLACEMENTS) :
              IsLiteralReplacement(texts[k], texts[k + 1],
                                   REPLACEMENTS[k][1], REPLACEMENTS[k][2])
        /\ Count(xmlContent, NEAR_EMAIL) = Count(InputText, NEAR_EMAIL)
        /\ Count(xmlContent, LOWER_NAME) = Count(InputText, LOWER_NAME)

C4_Witness ==
    /\ pc = "parseAndPatchXML"
    /\ Includes(InputText, NEAR_EMAIL \o OLD_EMAIL)
    /\ Includes(InputText, OLD_NAME)
    /\ Includes(xmlContent, NEAR_EMAIL \o NEW_EMAIL)
    /\ Count(InputText, OLD_RFC) >= 2
    /\ Count(xmlContent, OLD_RFC) = 0

\* C5: of a sequence of Signature nodes only the entries whose xmlns holds
\* 'xmldsig' are removed; every other entry stays in the patched tree.
C5_KeepsOtherSignatureEntries ==
    LET before == Get(Root(ParsedTree), "Signature")
        after == Get(Root(xmlObj), "Signature")
    IN  (Patched /\ before.t = "arr") =>
            /\ after.t = "arr"
            /\ after.items = SelectSeq(before.items, KeepsSignatureItem)

\* The tree without the Signature of its root and with the values of the
\* patched leaves that it has blanked; a leaf it lacks is not added.
BlankLeaf(obj, key) == IF HasOwn(obj.props, key) THEN Set(obj, key, Str(<<>>)) ELSE obj

Blanked(tree) ==
    LET cs == Delete(Root(tree), "Signature")
        pm == BlankLeaf(BlankLeaf(Get(cs, "personaMoral"),
                  "nombreRepresentanteLegal"), "claveTramite")
        accs == Get(cs, "accionistas")
        acc == BlankLeaf(BlankLeaf(BlankLeaf(BlankLeaf(BlankLeaf(Get(accs, "accionista"),
                  "rfc"), "curp"), "nombre"), "apellidoPaterno"), "apellidoMaterno")
    IN  Set(tree, "contratoSocial",
            Set(Set(cs, "personaMoral", pm), "accionistas", Set(accs, "accionista", acc)))

\* C6: parseAndPatchXML changes the parsed tree only by removing the
\* Signature of the root and by overwriting the values of leaves that
\* exist; no node is added, removed or reordered and every other field
\* keeps its value, also when some of the patched fields are absent.
C6_OnlySignaturesAndExistingLeaves ==
    Patched => Blanked(xmlObj) = Blanked(ParsedTree)

\* C7: after parseAndPatchXML the representative name and the holder's
\* rfc, curp and three name components are the fixed new values, whatever
\* the fields held before.
C7_FixedValuesWritten ==
    Patched =>
        /\ Get(PersonaMoralOf(xmlObj), "nombreRepresentanteLegal") = Str(NEW_NAME)
        /\ Get(AccionistaOf(xmlObj), "rfc") = Str(NEW_RFC)
        /\ Get(AccionistaOf(xmlObj), "curp") = Str(NEW_CURP)
        /\ Get(AccionistaOf(xmlObj), "nombre") = Str(<<"E","D","U","A","R","D","O">>)
        /\ Get(AccionistaOf(xmlObj), "apellidoPaterno") = Str(<<"R","O","S","A","L","E","S">>)
        /\ Get(AccionistaOf(xmlObj), "apellidoMaterno") = Str(<<"P","A","Z">>)

\* A field that the text pass left alone (its case differs from the old
\* name) holds the new name after the patch.
C7_Witness ==
    /\ Patched
    /\ Get(PersonaMoralOf(ParsedTree), "nombreRepresentanteLegal") = Str(LOWER_NAME)
    /\ Get(PersonaMoralOf(xmlObj), "nombreRepresentanteLegal") = Str(NEW_NAME)

\* The new value that REPLACEMENTS gives for an old literal.
NewValueFor(old) ==
    REPLACEMENTS[CHOOSE k \in 1..Len(REPLACEMENTS) : REPLACEMENTS[k][1] = old][2]

JoinedHolderName(tree) ==
    ToText(Get(AccionistaOf(tree), "nombre")) \o <<" ">>
        \o ToText(Get(AccionistaOf(tree), "apellidoPaterno")) \o <<" ">>
        \o ToText(Get(AccionistaOf(tree), "apellidoMaterno"))

\* C8: in every patched tree the holder's nombre, apellidoPaterno and
\* apellidoMaterno, joined in this order, are the representative name of
\* the tree and the new value of REPLACEMENTS for the old full name.
C8_NameComponentsConsistent ==
    Patched =>
        /\ JoinedHolderName(xmlObj)
              = ToText(Get(PersonaMoralOf(xmlObj), "nombreRepresentanteLegal"))
        /\ JoinedHolderName(xmlObj) = NewValueFor(OLD_NAME)

C8_Witness ==
    /\ Patched
    /\ JoinedHolderName(ParsedTree) # NewValueFor(OLD_NAME)
    /\ JoinedHolderName(xmlObj) = NewValueFor(OLD_NAME)

\* C9: after parseAndPatchXML claveTramite holds the old tax-id nowhere,
\* also when it held it more than once; the new tax-id stands where the
\* old one stood and the rest of the code is unchanged.
C9_ClaveTramiteFullyRewritten ==
    LET before == Get(PersonaMoralOf(ParsedTree), "claveTramite")
        after == Get(PersonaMoralOf(xmlObj), "claveTramite")
    IN  Patched =>
            /\ ~Includes(after.s, OLD_RFC)
            /\ IsLiteralReplacement(before.s, after.s, OLD_RFC, NEW_RFC)

\* The parsed document lacks the root, the personaMoral or the accionista.
LacksRecord(tree) ==
    \/ Root(tree).t = "undefined"
    \/ PersonaMoralOf(tree).t = "undefined"
    \/ AccionistaOf(tree).t = "undefined"

\* No artifact was written by this run.
NoArtifact == \A a \in Artifacts : disk[a] \in {NoFile, StaleFile}

\* C10: when the parsed document lacks the root, the personaMoral or the
\* accionista, the run ends with exit code 1 and none of the three
\* artifacts is written.
C10_MissingRecordAborts ==
    (pc \in {"serializeXML", "exited"} /\ disk[CONFIG.INPUT_FILE].exists
        /\ LacksRecord(ParsedTree))
    => (pc = "exited" /\ exitCode = 1 /\ NoArtifact)

C10_Witness ==
    /\ pc = "exited"
    /\ exitCode = 1
    /\ NoArtifact
    /\ Root(ParsedTree).t = "obj"
    /\ PersonaMoralOf(ParsedTree).t = "obj"
    /\ AccionistaOf(ParsedTree).t = "undefined"

\* ---------------------------------------------------------------------
\* The report, the exits and the artifacts
\* ---------------------------------------------------------------------

\* The line that transform logs after it has written the artifact at a.
WrittenLine(a) ==
    (CASE a = CONFIG.OUTPUT_XML -> "XML"
       [] a = CONFIG.OUTPUT_HTML -> "HTML"
       [] OTHER -> "README") \o " written to " \o a

\* The artifact at path a was written by this run.
WrittenByRun(a) == disk[a].exists /\ \E i \in DOMAIN stdout : stdout[i] = WrittenLine(a)
AllArtifactsWritten == \A a \in Artifacts : WrittenByRun(a)

\* The entries of stderr that the catch block of transform wrote.
FatalErrors == {i \in DOMAIN stderr : stderr[i].message = "Transformation failed:"}
NoWriteError == \A i \in DOMAIN stderr : stderr[i].error # "EACCES"

\* The tree in xmlObj has what the template reads without a test.
Renderable ==
    /\ xmlObj.t = "obj"
    /\ Get(PersonaMoralOf(xmlObj), "domicilio").t # "undefined"
    /\ Get(Root(xmlObj), "informacion").t # "undefined"

\* C11: when the QR generation fails, generateQRCode returns null and the
\* run goes on; the report shows the placeholder 'QR Code no disponible'
\* and no image; and when nothing else fails the run writes all three
\* artifacts and ends with exit code 0.
C11_QRFailureIsRecoverable ==
    qrDataURL = Null =>
        /\ pc \in {"buildHTML", "createDeployREADME", "exited"}
        /\ pc = "buildHTML" => exitCode = -1
        /\ WrittenByRun(CONFIG.OUTPUT_HTML) =>
              /\ disk[CONFIG.OUTPUT_HTML].content.qr = "QR Code no disponible"
              /\ disk[CONFIG.OUTPUT_HTML].content.qrImage = Null
        /\ (pc = "exited" /\ ~BuildHTMLThrows(xmlObj) /\ NoWriteError) =>
              /\ exitCode = 0
              /\ AllArtifactsWritten
              /\ FatalErrors = {}

C11_Witness ==
    /\ qrDataURL = Null
    /\ pc = "exited"
    /\ exitCode = 0
    /\ AllArtifactsWritten
    /\ disk[CONFIG.OUTPUT_HTML].content.qr = "QR Code no disponible"
    /\ \E i \in DOMAIN stderr : stderr[i].message = "QR Code generation failed:"

\* The number of documento entries of the input document, and the cards
\* that show them in their order.
DocumentCount == Count(InputText, <<"<documento>">>)
ExpectedCards(n) ==
    [i \in 1..n |-> [descripcion |-> <<"D", DocLabels[i]>>, uri |-> <<"u", DocLabels[i]>>]]

\* C12: for every N >= 1, N = 1 included, a document list of N entries
\* makes buildHTML produce N cards, the i-th with the description and the
\* URI of the i-th entry.
C12_OneCardPerDocument ==
    (pc = "buildHTML" /\ Renderable /\ DocumentCount >= 1) =>
        /\ ~BuildHTMLThrows(xmlObj)
        /\ buildHTML(xmlObj, qrDataURL).cards = ExpectedCards(DocumentCount)

\* The patched tree has no documentos.
DocumentosAbsent == xmlObj.t = "obj" /\ ~HasOwn(Root(xmlObj).props, "documentos")

\* C13: when documentos is absent from the patched tree, buildHTML does
\* not throw and renders the notice 'No hay documentos disponibles' and
\* no card, and the run, when no write fails, ends with all three
\* artifacts.
C13_AbsentDocumentListFallsBack ==
    (DocumentosAbsent /\ Renderable /\ pc \in {"buildHTML", "createDeployREADME", "exited"}) =>
        /\ ~BuildHTMLThrows(xmlObj)
        /\ buildHTML(xmlObj, qrDataURL).fallback = "No hay documentos disponibles"
        /\ buildHTML(xmlObj, qrDataURL).cards = <<>>
        /\ (pc = "exited" /\ NoWriteError) =>
              /\ exitCode = 0
              /\ AllArtifactsWritten
              /\ disk[CONFIG.OUTPUT_HTML].content = buildHTML(xmlObj, qrDataURL)

C13_Witness ==
    /\ DocumentosAbsent
    /\ pc = "exited"
    /\ exitCode = 0
    /\ AllArtifactsWritten
    /\ disk[CONFIG.OUTPUT_HTML].content.fallback = "No hay documentos disponibles"
    /\ disk[CONFIG.OUTPUT_HTML].content.cards = <<>>

\* C14: a run ends in one of two ways: every stage succeeded and the exit
\* code is 0, or an exception of some stage was caught, its cause was
\* written to stderr and the exit code is 1; until then no exit code is
\* set, and no stage runs twice.
C14_TwoOutcomes ==
    /\ pc = "exited" => exitCode \in {0, 1}
    /\ pc # "exited" => (exitCode = -1 /\ FatalErrors = {})
    /\ exitCode = 0 =>
          /\ AllArtifactsWritten
          /\ disk[CONFIG.OUTPUT_XML].content = serializedXML
          /\ disk[CONFIG.OUTPUT_HTML].content = buildHTML(xmlObj, qrDataURL)
          /\ disk[CONFIG.OUTPUT_README].content = createDeployREADME
          /\ FatalErrors = {}
          /\ stdout[Len(stdout)] = "Ready for deployment to any static host"
    /\ exitCode = 1 =>
          /\ FatalErrors = {Len(stderr)}
          /\ stderr[Len(stderr)].error \in {"ENOENT", "TypeError", "EACCES"}
          /\ \A i \in DOMAIN stdout : stdout[i] # "Transformation complete!"
    /\ \A i, j \in DOMAIN stdout : stdout[i] = stdout[j] => i = j

\* A later write failed after the XML artifact was written.
C14_Witness ==
    /\ pc = "exited"
    /\ exitCode = 1
    /\ WrittenByRun(CONFIG.OUTPUT_XML)
    /\ stderr[Len(stderr)] = [message |-> "Transformation failed:", error |-> "EACCES"]

\* C15: when the run aborts with an error, either all three artifacts of
\* the run are on disk or none of them is.
C15_AllOrNoArtifacts ==
    (pc = "exited" /\ exitCode = 1) =>
        \/ AllArtifactsWritten
        \/ \A a \in Artifacts : ~WrittenByRun(a)

\* ---------------------------------------------------------------------
\* Configuration
\* ---------------------------------------------------------------------

\* Two old literals of the table overlap: one is a substring of the other,
\* or the end of one is the start of the other.
SuffixIsPrefix(a, b) ==
    \E n \in 1..(IF Len(a) < Len(b) THEN Len(a) ELSE Len(b)) :
        SubSeq(a, Len(a) - n + 1, Len(a)) = SubSeq(b, 1, n)
Overlaps(table) ==
    \E i, j \in 1..Len(table) :
        i # j /\ (Includes(table[j][1], table[i][1]) \/ SuffixIsPrefix(table[i][1], table[j][1]))

\* C16: a run with a replacement table in which two old literals overlap
\* ends as a configuration error before the input file is read and before
\* the directory or an artifact is written.
C16_OverlappingTableRejected ==
    Overlaps(replacements) =>
        /\ pc \in {"readAndReplaceXML", "exited"}
        /\ pc = "exited" =>
              /\ exitCode = 1
              /\ ~distDir
              /\ xmlContent = <<>>
              /\ \A a \in Artifacts : ~disk[a].exists

\* C17: when the environment sets QR_TARGET_URL, that value is the URL
\* that the QR code encodes and that the report and the deployment note
\* show.
C17_EnvironmentURLUsed ==
    "QR_TARGET_URL" \in DOMAIN env =>
        /\ Truthy(qrDataURL) => qrDataURL.encodes = env["QR_TARGET_URL"]
        /\ WrittenByRun(CONFIG.OUTPUT_HTML) =>
              disk[CONFIG.OUTPUT_HTML].content.url = env["QR_TARGET_URL"]
        /\ WrittenByRun(CONFIG.OUTPUT_README) =>
              disk[CONFIG.OUTPUT_README].content.url = env["QR_TARGET_URL"]

\* ---------------------------------------------------------------------
\* One tree, two projections; the order of the stages
\* ---------------------------------------------------------------------

\* C18: the report and the serialized XML show the values of one patched
\* tree: the report's representative, RFC and CURP are the new name,
\* tax-id and personal-id-code, which the serialized XML holds in the same
\* fields, and neither serializeXML nor buildHTML changes the tree.
C18_SameTreeInReportAndXML ==
    /\ pc \in {"writeXML", "generateQRCode", "buildHTML", "createDeployREADME"} =>
          serializeXML(xmlObj) = serializedXML
    /\ WrittenByRun(CONFIG.OUTPUT_XML) =>
          /\ disk[CONFIG.OUTPUT_XML].content = serializedXML
          /\ Includes(serializedXML, El("nombreRepresentanteLegal", NEW_NAME))
          /\ Includes(serializedXML, El("rfc", NEW_RFC))
          /\ Includes(serializedXML, El("curp", NEW_CURP))
    /\ WrittenByRun(CONFIG.OUTPUT_HTML) =>
          LET report == disk[CONFIG.OUTPUT_HTML].content IN
          /\ report.representanteLegal = NEW_NAME
          /\ report.rfc = NEW_RFC
          /\ report.curp = NEW_CURP
          /\ Str(report.representanteLegal)
                = Get(PersonaMoralOf(xmlObj), "nombreRepresentanteLegal")
          /\ Str(report.rfc) = Get(AccionistaOf(xmlObj), "rfc")
          /\ Str(report.curp) = Get(AccionistaOf(xmlObj), "curp")

\* The lines that a successful run logs, one or more per stage.
FullLog ==
    << "Starting XML transformation...",
       "Reading and replacing XML content...",
       "Parsing and patching structured fields...",
       "Serializing XML...",
       "XML written to " \o CONFIG.OUTPUT_XML,
       "Generating QR code...",
       "Building HTML...",
       "HTML written to " \o CONFIG.OUTPUT_HTML,
       "Creating deployment README...",
       "README written to " \o CONFIG.OUTPUT_README,
       "Transformation complete!",
       "Files created in dist/ directory",
       "Ready for deployment to any static host" >>

\* What each stage has produced when the run stands at stage p: the
\* results of the earlier stages, and nothing of the later ones.
ProducedBefore(p) ==
    LET after(q) == p \in q IN
    /\ (xmlContent # <<>>) =>
          after({"parseAndPatchXML", "serializeXML", "writeXML", "generateQRCode",
                 "buildHTML", "createDeployREADME", "exited"})
    /\ (xmlObj # Undefined) =>
          after({"serializeXML", "writeXML", "generateQRCode", "buildHTML",
                 "createDeployREADME", "exited"})
    /\ (serializedXML # <<>>) =>
          after({"writeXML", "generateQRCode", "buildHTML", "createDeployREADME", "exited"})
    /\ WrittenByRun(CONFIG.OUTPUT_XML) =>
          after({"generateQRCode", "buildHTML", "createDeployREADME", "exited"})
    /\ (qrDataURL # Undefined) => after({"buildHTML", "createDeployREADME", "exited"})
    /\ WrittenByRun(CONFIG.OUTPUT_HTML) => after({"createDeployREADME", "exited"})
    /\ WrittenByRun(CONFIG.OUTPUT_README) => after({"exited"})

\* C19: a successful run goes through the stages in the order text
\* substitution, parse and patch, serialization, XML write, QR generation,
\* rendering, HTML write, README write, each once; generateQRCode has
\* resolved, to an image or to null, when buildHTML starts; and at no
\* stage a result of a later stage exists.
C19_StagesInOrder ==
    /\ SubSeq(FullLog, 1, Len(stdout)) = stdout
    /\ exitCode = 0 => stdout = FullLog
    /\ pc \in {"buildHTML", "createDeployREADME"} => qrDataURL \in QROutcomes
    /\ WrittenByRun(CONFIG.OUTPUT_HTML) => disk[CONFIG.OUTPUT_HTML].content.qrImage \in QROutcomes
    /\ ProducedBefore(pc)

C19_Witness ==
    /\ pc = "exited"
    /\ exitCode = 0
    /\ stdout = FullLog
    /\ disk[CONFIG.OUTPUT_HTML].content.qrImage = DataURL(CONFIG.QR_TARGET_URL)

\* The texts that the entries of REPLACEMENTS give when n of them are
\* applied to the input text, each with the set of the entries applied,
\* over all choices and orders of the n entries.
RECURSIVE TextsAfterAnyOrder(_)
TextsAfterAnyOrder(n) ==
    IF n = 0 THEN {<<{}, InputText>>}
    ELSE LET prev == TextsAfterAnyOrder(n - 1) IN
         UNION { { <<p[1] \cup {k},
                     ReplaceGlobal(p[2], REPLACEMENTS[k][1], REPLACEMENTS[k][2])>> :
                   k \in (1..Len(REPLACEMENTS)) \ p[1] } : p \in prev }

\* C20: with the configured REPLACEMENTS the text pass gives the same
\* text in whatever order the four entries are applied, and applied to its
\* own result it changes nothing.
C20_OrderIndependentAndIdempotent ==
    pc = "parseAndPatchXML" =>
        /\ {p[2] : p \in TextsAfterAnyOrder(Len(REPLACEMENTS))} = {xmlContent}
        /\ readAndReplaceXML(xmlContent) = xmlContent

C20_Witness ==
    /\ pc = "parseAndPatchXML"
    /\ Count(InputText, OLD_RFC) >= 2
    /\ Includes(InputText, OLD_EMAIL \o NEW_RFC)
    /\ Includes(InputText, OLD_NAME)
    /\ xmlContent # InputText
    /\ readAndReplaceXML(xmlContent) = xmlContent

\* ---------------------------------------------------------------------
\* The input file; the round trip of the tree
\* ---------------------------------------------------------------------

\* The run failed in readFileSync: nothing was logged after the line of
\* step 1.
ReadFailed == pc = "exited" /\ Len(stdout) = 2

\* C21: when the input file is missing, cannot be read or is empty, the
\* run does not go on: it ends with exit code 1 and none of the three
\* artifacts is written.
C21_BadInputFileAborts ==
    /\ (~disk[CONFIG.INPUT_FILE].exists \/ InputText = <<>>) =>
          pc \in {"readAndReplaceXML", "parseAndPatchXML", "exited"}
    /\ (pc = "exited" /\ (ReadFailed \/ InputText = <<>>)) =>
          /\ exitCode = 1
          /\ FatalErrors # {}
          /\ NoArtifact

\* The empty file: read, and the patch throws on the tree without a root.
C21_Witness ==
    /\ pc = "exited"
    /\ disk[CONFIG.INPUT_FILE].exists
    /\ InputText = <<>>
    /\ ~ReadFailed
    /\ exitCode = 1
    /\ stderr[Len(stderr)].error = "TypeError"
    /\ NoArtifact

\* The tree with every number as its text, so that trees are compared
\* by the text of their values (the value of an attribute is its text
\* already).
RECURSIVE TextValues(_)
TextValues(v) ==
    LET props == [i \in 1..Len(v.props) |->
                    IF IsAttr(v.props[i][1]) THEN v.props[i]
                    ELSE <<v.props[i][1], TextValues(v.props[i][2])>>]
    IN  CASE v.t = "num" -> Str(v.s)
          [] v.t = "obj" -> Obj(props)
          [] v.t = "arr" ->
                [t |-> "arr", items |-> [i \in 1..Len(v.items) |-> TextValues(v.items[i])],
                 props |-> props]
          [] OTHER -> v

\* C22: parsing the text that serializeXML produced from the patched tree
\* gives the patched tree again.
C22_RoundTripStable ==
    pc = "writeXML" => TextValues(Parse(serializedXML)) = TextValues(xmlObj)

====
